---- MODULE Spec2Model ----
(***************************************************************************)
(* froala-reactive: a Meteor template that wraps the Froala Editor jQuery  *)
(* plugin.  The model follows src/froala-reactive.js: the `rendered` hook  *)
(* (mount), the autorun block it registers (reactive recomputation), the   *)
(* jQuery event listeners it subscribes, and the `destroyed` hook          *)
(* (unmount), together with the two internal helper functions.             *)
(*                                                                         *)
(* The host (Blaze / Tracker), jQuery and the editor plugin are the        *)
(* environment.  What the adapter does not control is nondeterministic:    *)
(* when the data context changes, when the invalidated autorun is flushed, *)
(* when the host refreshes the `data` property of the template instance,   *)
(* which plugin methods are installed on the jQuery prototype, when the    *)
(* editor triggers an event, and whether an editor call throws.            *)
(***************************************************************************)
EXTENDS Integers, Sequences, FiniteSets, TLC

(***************************************************************************)
(* Bounds of the model.                                                    *)
(***************************************************************************)
\* Largest number of DOM elements the selector lookup may match.
MaxMatches == 2
\* Largest number of entries of a snapshot handed to event-binding discovery
\* in SpecNames.
MaxEntries == 3

(***************************************************************************)
(* JavaScript values.  `ref` is the identity of a function or object,      *)
(* `val` the content of a string or the structure of an object.            *)
(***************************************************************************)
Undefined == [kind |-> "undefined", ref |-> 0, val |-> ""]
Str(s) == [kind |-> "string", ref |-> 0, val |-> s]
Fn(i) == [kind |-> "function", ref |-> i, val |-> ""]
Obj(i, v) == [kind |-> "object", ref |-> i, val |-> v]

\* _.isFunction(v)
isFunction(v) == v.kind = "function"

\* _.isEqual(a, b): deep equality.  Functions are equal only when identical;
\* objects are compared by structure, whatever their identity.
isEqual(a, b) ==
  /\ a.kind = b.kind
  /\ IF a.kind = "function" THEN a.ref = b.ref ELSE a.val = b.val

\* JavaScript truthiness, as tested by `if (x)`.
Truthy(v) == ~(v.kind = "undefined" \/ (v.kind = "string" /\ v.val = ""))

\* String.prototype.indexOf: zero-based position of the first occurrence of
\* `needle` in `s`, or -1.
indexOf(s, needle) ==
  LET n == Len(needle)
      hits == {i \in 1..(Len(s) - n + 1) : SubSeq(s, i, i + n - 1) = needle}
  IN  IF hits = {} THEN -1
      ELSE (CHOOSE i \in hits : \A j \in hits : i <= j) - 1

\* String.prototype.substring(start)
substring(s, start) == SubSeq(s, start + 1, Len(s))

(***************************************************************************)
(* A data context (Options Snapshot) is an object: its entries in key      *)
(* enumeration order, keys distinct.                                       *)
(***************************************************************************)
Entry(k, v) == [key |-> k, value |-> v]

\* Object.keys(d).  _.filter over it is SelectSeq.
ObjectKeys(d) == [i \in 1..Len(d) |-> d[i].key]

\* d[k]: property lookup, undefined when the key is absent.
Get(d, k) ==
  IF \E i \in 1..Len(d) : d[i].key = k
  THEN d[CHOOSE i \in 1..Len(d) : d[i].key = k].value
  ELSE Undefined

(***************************************************************************)
(* The data contexts the reactive source produces.  Every data context     *)
(* holds some of the wrapped value `_value`, the event callback `_onSave`  *)
(* and the editor option `a_b` (whose underscore is not leading).  In one  *)
(* run the source varies one of the three over several values and lets the *)
(* other two hold one value; the varied key and one of the other two may   *)
(* also be absent, the third (AlwaysPresent) never is:                     *)
(*   "content": `_value` is empty or one of two texts;                     *)
(*   "events":  `_onSave` is one of two functions or not callable;         *)
(*   "options": `a_b` is one of two distinct objects of the same structure *)
(*              or an object of another structure.                         *)
(***************************************************************************)
KeyOrder == <<"_value", "_onSave", "a_b">>

Families == {"content", "events", "options"}

Absent == [kind |-> "absent", ref |-> 0, val |-> ""]

ValuesOf(family, k) ==
  CASE k = "_value" ->
         IF family = "content" THEN {Str(""), Str("a"), Str("b")} ELSE {Str("a")}
    [] k = "_onSave" ->
         IF family = "events" THEN {Fn(1), Fn(2), Str("x")} ELSE {Fn(1)}
    [] k = "a_b" ->
         IF family = "options" THEN {Obj(1, "p"), Obj(2, "p"), Obj(1, "q")}
         ELSE {Obj(1, "p")}

AlwaysPresent == [content |-> "_onSave", events |-> "a_b", options |-> "_onSave"]

Assignments(family) ==
  LET all == UNION {ValuesOf(family, KeyOrder[i]) : i \in DOMAIN KeyOrder}
             \cup {Absent}
  IN  {f \in [DOMAIN KeyOrder -> all] :
         \A i \in DOMAIN KeyOrder :
           f[i] \in ValuesOf(family, KeyOrder[i])
                    \cup (IF KeyOrder[i] = AlwaysPresent[family] THEN {} ELSE {Absent})}

RECURSIVE ToObject(_, _)
ToObject(f, i) ==
  IF i > Len(KeyOrder) THEN <<>>
  ELSE (IF f[i] = Absent THEN <<>> ELSE <<Entry(KeyOrder[i], f[i])>>)
       \o ToObject(f, i + 1)

Snapshots ==
  [family \in Families |-> {ToObject(f, 1) : f \in Assignments(family)}]

\* The data contexts one change of the reactive source leads to: at most one
\* key differs.  Changes of several keys are several changes before the one
\* flush that re-runs the autorun.
Successors ==
  [family \in Families |->
     [d \in Snapshots[family] |->
        {e \in Snapshots[family] :
           Cardinality({i \in DOMAIN KeyOrder :
                          Get(e, KeyOrder[i]) # Get(d, KeyOrder[i])}) <= 1}]]

(***************************************************************************)
(* The jQuery prototype ($.fn) carries the plugin's instance method under  *)
(* the name `editable`, under the alias `froalaEditable`, under both, or   *)
(* under neither; either property may also hold something not callable.    *)
(***************************************************************************)
PluginFn == [kind |-> "function", ref |-> 0, val |-> ""]

Prototypes ==
  [froalaEditable : {Undefined, Str("x"), PluginFn},
   editable : {Undefined, Str("x"), PluginFn}]

\* The prototype with neither method; also the value of `proto` in a step
\* that is not a hook's.
NoPrototype == [froalaEditable |-> Undefined, editable |-> Undefined]

\* tmpl.$('.froala-reactive-meteorized'): a jQuery object over the matched
\* elements, with the methods of the prototype.
JQuery(n, fn) ==
  [exists |-> TRUE, length |-> n,
   froalaEditable |-> fn.froalaEditable, editable |-> fn.editable]

(***************************************************************************)
(* Internal helper functions.                                              *)
(***************************************************************************)
\* Variant: prefers the original name to the alias.
getFroalaEditableJQueryInstanceMethod_EditableFirst(froalaJQueryObject) ==
  IF froalaJQueryObject.exists
  THEN IF isFunction(froalaJQueryObject.editable) THEN "editable"
       ELSE IF isFunction(froalaJQueryObject.froalaEditable) THEN "froalaEditable"
       ELSE "null"
  ELSE "null"

\* Variant: takes any defined `editable` property for the plugin method.
getFroalaEditableJQueryInstanceMethod_AnyEditable(froalaJQueryObject) ==
  IF froalaJQueryObject.exists
  THEN IF isFunction(froalaJQueryObject.froalaEditable) THEN "froalaEditable"
       ELSE IF froalaJQueryObject.editable # Undefined THEN "editable"
       ELSE "null"
  ELSE "null"

getFroalaEditableJQueryInstanceMethod(froalaJQueryObject) ==
  IF froalaJQueryObject.exists
  THEN IF isFunction(froalaJQueryObject.froalaEditable) THEN "froalaEditable"
       ELSE IF isFunction(froalaJQueryObject.editable) THEN "editable"
       ELSE "null"
  ELSE "null"

\* Variant: does not test that the value is a function.
getEventHandlerNames_AnyValue(tmplData) ==
  SelectSeq(ObjectKeys(tmplData), LAMBDA opt : indexOf(opt, "_on") = 0)

getEventHandlerNames(tmplData) ==
  SelectSeq(ObjectKeys(tmplData),
         LAMBDA opt : indexOf(opt, "_on") = 0 /\ isFunction(Get(tmplData, opt)))

\* 'editable.' + opt.substring(3)
EventName(opt) == "editable." \o substring(opt, 3)

(***************************************************************************)
(* Calls the adapter issues to its collaborators, logged per handler run.  *)
(*   via  : the plugin method name for an editor call, else the jQuery /   *)
(*          event / Function method used                                   *)
(*   cmd  : the editor command, or the DOM event name                      *)
(*   key  : the data-context key concerned                                 *)
(*   arg  : the value passed                                               *)
(*   data : the data context passed (as options, or as `this`)             *)
(***************************************************************************)
Call(via, cmd, key, arg, data) ==
  [via |-> via, cmd |-> cmd, key |-> key, arg |-> arg, data |-> data]

(***************************************************************************)
(* Template.froalaReactive.rendered, up to the autorun block.              *)
(***************************************************************************)
\* Variant: accepts several matching elements.
StructureOk_AtLeastOne(input) == input.length >= 1

\* $input.length !== 1 throws 'invalid-froala-reactive-template'.
StructureOk(input) == input.length = 1

\* The editor instances a sequence of calls creates: a call of the plugin
\* method with an options object creates one on each matched element.
Created(calls, input) ==
  Cardinality({i \in 1..Len(calls) : calls[i].cmd = "init"}) * input.length

\* Variant: sets the content whatever tmpl.data._value is.
InitCalls_AlwaysSetHTML(method, data) ==
  <<Call(method, "init", "", Undefined, data),
    Call(method, "setHTML", "_value", Get(data, "_value"), <<>>)>>

\* $input[froalaMethod](tmpl.data), then 'setHTML' if tmpl.data._value is truthy.
InitCalls(method, data) ==
  <<Call(method, "init", "", Undefined, data)>>
  \o (IF Truthy(Get(data, "_value"))
      THEN <<Call(method, "setHTML", "_value", Get(data, "_value"), <<>>)>>
      ELSE <<>>)

\* $input.on('editable.' + opt.substring(3), listener) for each event handler
\* name of tmpl.data.
SubscribeCalls(data) ==
  LET eventHandlers == getEventHandlerNames(data)
  IN  [i \in 1..Len(eventHandlers) |->
         Call("on", EventName(eventHandlers[i]), eventHandlers[i], Undefined, <<>>)]

\* The listeners subscribed on $input after those calls.  A listener closes
\* over `opt`; `bound` records, for the properties only, the callable that
\* tmpl.data held under `opt` when the listener was subscribed.
Subscribed(subs, data) ==
  LET eventHandlers == getEventHandlerNames(data)
  IN  subs \cup {[event |-> EventName(eventHandlers[i]), opt |-> eventHandlers[i],
                  bound |-> Get(data, eventHandlers[i])] :
                 i \in 1..Len(eventHandlers)}

(***************************************************************************)
(* The autorun block.                                                      *)
(***************************************************************************)
\* Variant: also pushes a `_value` that became empty.
ValueChanged_AlsoEmpty(lastData, data) ==
  ~isEqual(Get(lastData, "_value"), Get(data, "_value"))

\* Variant: does not compare with the last-known value.
ValueChanged_NoDiff(lastData, data) == Truthy(Get(data, "_value"))

\* if (_data._value && !_.isEqual(lastData._value, _data._value))
ValueChanged(lastData, data) ==
  /\ Truthy(Get(data, "_value"))
  /\ ~isEqual(Get(lastData, "_value"), Get(data, "_value"))

ValueCalls(method, lastData, data) ==
  IF ValueChanged(lastData, data)
  THEN <<Call(method, "setHTML", "_value", Get(data, "_value"), <<>>),
         Call(method, "restoreSelectionByMarkers", "", Undefined, <<>>)>>
  ELSE <<>>

\* Variant: skips every key that contains an underscore.
OptChanged_AnyUnderscore(lastData, data, opt) ==
  /\ indexOf(opt, "_") = -1
  /\ ~isEqual(Get(lastData, opt), Get(data, opt))

\* opt.indexOf('_') !== 0 && !_.isEqual(lastData[opt], _data[opt])
OptChanged(lastData, data, opt) ==
  /\ indexOf(opt, "_") # 0
  /\ ~isEqual(Get(lastData, opt), Get(data, opt))

changedOpts(lastData, data) ==
  SelectSeq(ObjectKeys(data), LAMBDA opt : OptChanged(lastData, data, opt))

\* Variant: passes the last-known value of the changed option.
OptionCalls_OldValue(method, lastData, data) ==
  LET opts == changedOpts(lastData, data)
  IN  [i \in 1..Len(opts) |->
         Call(method, "option", opts[i], Get(lastData, opts[i]), <<>>)]

OptionCalls(method, lastData, data) ==
  LET opts == changedOpts(lastData, data)
  IN  [i \in 1..Len(opts) |->
         Call(method, "option", opts[i], Get(data, opts[i]), <<>>)]

\* The editor calls of one run of the block, in the order it issues them.
AutorunCalls(method, lastData, data) ==
  ValueCalls(method, lastData, data) \o OptionCalls(method, lastData, data)

\* The calls issued when the editor throws in call number `failAt` (0: no call
\* throws): the exception leaves the block at once.
IssuedCalls(calls, failAt) ==
  IF failAt = 0 THEN calls ELSE SubSeq(calls, 1, failAt)

\* Variant: saves the new snapshot also when an editor call threw.
SavedData_AlsoOnFailure(lastData, data, failAt) == data

\* Variant: keeps the old snapshot when the new one has fewer keys.
SavedData_UnlessShrunk(lastData, data, failAt) ==
  IF failAt = 0 /\ Len(data) >= Len(lastData) THEN data ELSE lastData

\* lastData = _data, the last statement of the block.
SavedData(lastData, data, failAt) ==
  IF failAt = 0 THEN data ELSE lastData

(***************************************************************************)
(* The event listener subscribed by `rendered`.                            *)
(***************************************************************************)
\* tmpl.data[opt]
ListenerTarget(tmplData, opt) == Get(tmplData, opt)

\* Variant: the callback runs against tmpl.data.
ListenerContext_TmplData(tmplData, lastData, data) == tmplData

\* The `this` of the callback: the closure's variable lastData.
ListenerContext(tmplData, lastData, data) == lastData

\* e.preventDefault(); tmpl.data[opt].apply(lastData, arguments);
ListenerCalls(tmplData, lastData, data, opt) ==
  <<Call("preventDefault", "", opt, Undefined, <<>>)>>
  \o (IF isFunction(ListenerTarget(tmplData, opt))
      THEN <<Call("apply", "", opt, ListenerTarget(tmplData, opt),
                  ListenerContext(tmplData, lastData, data))>>
      ELSE <<>>)

\* Applying a value that is not a function is a TypeError.
ListenerOutcome(tmplData, opt) ==
  IF isFunction(ListenerTarget(tmplData, opt)) THEN "ok" ELSE "TypeError"

(***************************************************************************)
(* Template.froalaReactive.destroyed.                                      *)
(***************************************************************************)
\* $input.unbind('editable.' + opt.substring(3)) for each event handler name
\* of tmpl.data.
UnbindCalls(data) ==
  LET eventHandlers == getEventHandlerNames(data)
  IN  [i \in 1..Len(eventHandlers) |->
         Call("unbind", EventName(eventHandlers[i]), eventHandlers[i], Undefined, <<>>)]

\* The listeners left on $input: unbind removes every listener of the event.
Unsubscribed(subs, data) ==
  LET eventHandlers == getEventHandlerNames(data)
  IN  {l \in subs :
         \A i \in 1..Len(eventHandlers) : l.event # EventName(eventHandlers[i])}

\* Variant: destroys the editor before it unbinds the listeners.
DestroyedCalls_DestroyFirst(method, data) ==
  IF method = "null" THEN <<>>
  ELSE <<Call(method, "destroy", "", Undefined, <<>>)>> \o UnbindCalls(data)

\* Variant: does not return when no plugin method is resolvable.
DestroyedCalls_Always(method, data) ==
  UnbindCalls(data) \o <<Call(method, "destroy", "", Undefined, <<>>)>>

\* Variant: unbinds the listeners and leaves the editor alone.
DestroyedCalls_UnbindOnly(method, data) ==
  IF method = "null" THEN <<>> ELSE UnbindCalls(data)

\* The calls of the hook: none when no plugin method is resolvable.
DestroyedCalls(method, data) ==
  IF method = "null" THEN <<>>
  ELSE UnbindCalls(data) \o <<Call(method, "destroy", "", Undefined, <<>>)>>

\* Variant: the exception of 'destroy' is not caught.
DestroyedOutcome_Uncaught(threw) == IF threw THEN "editor-error" ELSE "ok"

\* try { $input[froalaMethod]('destroy'); } catch (err) {}
DestroyedOutcome(threw) == "ok"

(***************************************************************************)
(* What the editor has been handed, as far as the calls tell.              *)
(***************************************************************************)
\* d with k set to v.
Put(d, k, v) ==
  IF \E i \in 1..Len(d) : d[i].key = k
  THEN [i \in 1..Len(d) |-> IF d[i].key = k THEN Entry(k, v) ELSE d[i]]
  ELSE Append(d, Entry(k, v))

\* The editor options handed so far after `calls`, `old` being those handed
\* before: the instantiation call hands every option of its data context,
\* an 'option' call hands one.  Keys that start with '_' are no options.
RECURSIVE HandedOptions(_, _)
HandedOptions(calls, old) ==
  IF calls = <<>> THEN old
  ELSE LET c == Head(calls)
           now == IF c.cmd = "init"
                  THEN SelectSeq(c.data, LAMBDA e : indexOf(e.key, "_") # 0)
                  ELSE IF c.cmd = "option" THEN Put(old, c.key, c.arg)
                  ELSE old
       IN  HandedOptions(Tail(calls), now)

\* The argument of the last 'setHTML' call after `calls`, `old` being the one
\* before.
HandedContent(calls, old) ==
  LET set == {i \in 1..Len(calls) : calls[i].cmd = "setHTML"}
  IN  IF set = {} THEN old
      ELSE calls[CHOOSE i \in set : \A j \in set : j <= i].arg

\* The most recent truthy `_value` after the data context `data` was
\* processed, `old` being the one before.
SeenValue(data, old) ==
  IF Truthy(Get(data, "_value")) THEN Get(data, "_value") ELSE old

\* The calls the editor had accepted when call number `failAt` threw.
AppliedCalls(calls, failAt) ==
  IF failAt = 0 THEN <<>> ELSE SubSeq(calls, 1, failAt - 1)

(***************************************************************************)
(* State.                                                                  *)
(***************************************************************************)
VARIABLES
  phase,        \* "created" | "rendered" | "destroying" | "destroyed"
  mountOutcome, \* how `rendered` ended: "none" before it ran, "ok", or the error
  matches,      \* number of elements matching '.froala-reactive-meteorized'
  source,       \* the family of data contexts the reactive source produces
  proto,        \* the jQuery prototype as found by the hook of the last step
  curData,      \* Template.currentData(): the latest data context
  tmplData,     \* tmpl.data: the data property of the template instance
  lastData,     \* the closure variable lastData of `rendered`
  froalaMethod, \* the closure variable froalaMethod of `rendered`
  computation,  \* the autorun: "none" | "active" | "stopped"
  dirty,        \* the autorun is invalidated and waits for the flush
  listeners,    \* the listeners subscribed on $input
  instances,    \* live editor instances created through the adapter
  committed,    \* the data context saved by the last completed autorun run
  destroyCall,  \* the 'destroy' call of `destroyed`: "none" before the hook ran,
                \* then "not-issued" | "returned" | "threw"
  eventHandlers, \* the local eventHandlers of the hook of the last step: the
                \* result of getEventHandlerNames, <<>> when it was not called
  content,      \* the argument of the last 'setHTML' call, undefined before any
  options,      \* the editor options as last handed to the editor
  seenValue,    \* the most recent truthy `_value` of the data contexts that
                \* `rendered` and the completed autorun runs processed
  pending,      \* the calls the editor accepted in the autorun run that threw,
                \* <<>> once a run has completed
  retried,      \* the `pending` that the autorun run of the last step started
                \* with, <<>> when the last step ran none
  prevData,     \* the lastData that the autorun run of the last step compared
                \* with, <<>> when the last step ran none
  op,           \* the handler that ran in the last step, "host" for the environment
  log,          \* the calls that handler issued, in order
  outcome       \* how that handler ended: "ok" or the error it threw

vars == <<phase, mountOutcome, matches, source, proto, curData, tmplData, lastData,
          froalaMethod, computation, dirty, listeners, instances, committed,
          destroyCall, eventHandlers, content, options, seenValue, pending,
          retried, prevData, op, log, outcome>>

handed == <<content, options, seenValue, pending>>

adapter == <<lastData, froalaMethod, listeners, instances, committed>>

Init ==
  /\ phase = "created"
  /\ mountOutcome = "none"
  /\ matches \in 0..MaxMatches
  /\ proto = NoPrototype
  /\ source \in Families
  /\ curData \in Snapshots[source]
  /\ tmplData = curData
  /\ lastData = <<>>
  /\ froalaMethod = "null"
  /\ computation = "none"
  /\ dirty = FALSE
  /\ listeners = {}
  /\ instances = 0
  /\ committed = <<>>
  /\ destroyCall = "none"
  /\ eventHandlers = <<>>
  /\ content = Undefined
  /\ options = <<>>
  /\ seenValue = Undefined
  /\ pending = <<>>
  /\ retried = <<>>
  /\ prevData = <<>>
  /\ op = "host"
  /\ log = <<>>
  /\ outcome = "none"

\* A step of the environment issues no call of the adapter.
HostStep ==
  /\ op' = "host"
  /\ proto' = NoPrototype
  /\ eventHandlers' = <<>>
  /\ retried' = <<>>
  /\ prevData' = <<>>
  /\ UNCHANGED destroyCall
  /\ log' = <<>>
  /\ outcome' = "none"

(***************************************************************************)
(* Template.froalaReactive.rendered: the host mounts the template once.    *)
(* `p` is the jQuery prototype at that time.  tmpl.autorun runs the block a *)
(* first time before `rendered` returns.                                   *)
(***************************************************************************)
Mount(p) ==
  /\ phase = "created"
  /\ phase' = "rendered"
  /\ op' = "rendered"
  /\ proto' = p
  /\ LET input == JQuery(matches, p)
         method == getFroalaEditableJQueryInstanceMethod(input)
     IN  IF ~StructureOk(input)
         THEN /\ outcome' = "invalid-froala-reactive-template"
              /\ log' = <<>>
              /\ eventHandlers' = <<>>
              /\ prevData' = <<>>
              /\ UNCHANGED <<adapter, computation, handed>>
         ELSE IF method = "null"
         THEN /\ outcome' = "invalid-froala-editor-plugin"
              /\ log' = <<>>
              /\ eventHandlers' = <<>>
              /\ prevData' = <<>>
              /\ UNCHANGED <<adapter, computation, handed>>
         ELSE /\ outcome' = "ok"
              /\ froalaMethod' = method
              /\ eventHandlers' = getEventHandlerNames(tmplData)
              /\ log' = InitCalls(method, tmplData) \o SubscribeCalls(tmplData)
                        \o AutorunCalls(method, tmplData, curData)
              /\ instances' = instances + Created(log', input)
              /\ prevData' = tmplData
              /\ listeners' = Subscribed(listeners, tmplData)
              /\ computation' = "active"
              /\ lastData' = SavedData(tmplData, curData, 0)
              /\ committed' = curData
              /\ content' = HandedContent(log', content)
              /\ options' = HandedOptions(log', options)
              /\ seenValue' = SeenValue(curData, seenValue)
              /\ pending' = <<>>
  /\ mountOutcome' = outcome'
  /\ retried' = <<>>
  /\ UNCHANGED <<matches, source, curData, tmplData, dirty, destroyCall>>

(***************************************************************************)
(* The reactive source hands the template a new data context; an active    *)
(* autorun is invalidated.                                                 *)
(***************************************************************************)
SetData(d) ==
  /\ phase = "rendered"
  /\ d \in Successors[source][curData]
  /\ curData' = d
  /\ dirty' = (computation = "active")
  /\ HostStep
  /\ UNCHANGED <<phase, mountOutcome, matches, source, tmplData, computation, adapter,
                 handed>>

(***************************************************************************)
(* The host refreshes tmpl.data to the current data context.               *)
(***************************************************************************)
RefreshData ==
  /\ phase = "rendered"
  /\ tmplData # curData
  /\ tmplData' = curData
  /\ HostStep
  /\ UNCHANGED <<phase, mountOutcome, matches, source, curData, computation, dirty,
                 adapter, handed>>

(***************************************************************************)
(* The flush re-runs the invalidated autorun block.  The editor may throw  *)
(* in any of the calls.                                                    *)
(***************************************************************************)
Autorun(failAt) ==
  /\ computation = "active"
  /\ dirty
  /\ LET calls == AutorunCalls(froalaMethod, lastData, curData)
     IN  /\ failAt \in 0..Len(calls)
         /\ log' = IssuedCalls(calls, failAt)
         /\ lastData' = SavedData(lastData, curData, failAt)
         /\ committed' = IF failAt = 0 THEN curData ELSE committed
         /\ outcome' = IF failAt = 0 THEN "ok" ELSE "editor-error"
         /\ instances' = instances + Created(log', JQuery(matches, NoPrototype))
         /\ content' = HandedContent(log', content)
         /\ options' = HandedOptions(log', options)
         /\ seenValue' = IF failAt = 0 THEN SeenValue(curData, seenValue)
                         ELSE seenValue
         /\ pending' = AppliedCalls(calls, failAt)
  /\ retried' = pending
  /\ prevData' = lastData
  /\ op' = "autorun"
  /\ proto' = NoPrototype
  /\ eventHandlers' = <<>>
  /\ dirty' = FALSE
  /\ UNCHANGED <<phase, mountOutcome, matches, source, curData, tmplData,
                 froalaMethod, computation, listeners, destroyCall>>

(***************************************************************************)
(* The editor triggers an event a listener is subscribed to.               *)
(***************************************************************************)
Fire(l) ==
  /\ phase \in {"rendered", "destroyed"}
  /\ l \in listeners
  /\ op' = "listener"
  /\ log' = ListenerCalls(tmplData, lastData, curData, l.opt)
  /\ outcome' = ListenerOutcome(tmplData, l.opt)
  /\ proto' = NoPrototype
  /\ eventHandlers' = <<>>
  /\ retried' = <<>>
  /\ UNCHANGED handed
  /\ prevData' = <<>>
  /\ UNCHANGED <<phase, mountOutcome, matches, source, curData, tmplData,
                 computation, dirty, adapter, destroyCall>>

(***************************************************************************)
(* The host starts to destroy the view: the view leaves the reactive tree, *)
(* so it has no current data context any more and its autorun is stopped.  *)
(* The `destroyed` hook is the next thing to run.  No run of the autorun   *)
(* block follows, so the record of what the runs handed to the editor ends *)
(* here.                                                                   *)
(***************************************************************************)
DestroyView ==
  /\ phase = "rendered"
  /\ phase' = "destroying"
  /\ computation' = IF computation = "active" THEN "stopped" ELSE computation
  /\ dirty' = FALSE
  /\ curData' = <<>>
  /\ content' = Undefined
  /\ options' = <<>>
  /\ seenValue' = Undefined
  /\ pending' = <<>>
  /\ HostStep
  /\ UNCHANGED <<mountOutcome, matches, source, tmplData, adapter>>

(***************************************************************************)
(* Template.froalaReactive.destroyed.  `p` is the jQuery prototype at that *)
(* time.  The editor's 'destroy' may throw, and may then have torn the     *)
(* instance down or not.                                                   *)
(***************************************************************************)
Unmount(p, threw, torn) ==
  /\ phase = "destroying"
  /\ LET input == JQuery(matches, p)
         method == getFroalaEditableJQueryInstanceMethod(input)
         calls == DestroyedCalls(method, tmplData)
         issued == \E i \in 1..Len(calls) : calls[i].cmd = "destroy"
     IN  /\ IF issued THEN (~threw) => torn ELSE ~threw /\ ~torn
         /\ log' = calls
         /\ eventHandlers' = IF method = "null" THEN <<>>
                             ELSE getEventHandlerNames(tmplData)
         /\ destroyCall' = IF ~issued THEN "not-issued"
                           ELSE IF threw THEN "threw" ELSE "returned"
         /\ outcome' = IF issued THEN DestroyedOutcome(threw) ELSE "ok"
         /\ listeners' = IF method = "null" THEN listeners
                         ELSE Unsubscribed(listeners, tmplData)
         /\ instances' = IF torn THEN 0 ELSE instances
  /\ phase' = "destroyed"
  /\ op' = "destroyed"
  /\ proto' = p
  /\ retried' = <<>>
  /\ UNCHANGED handed
  /\ prevData' = <<>>
  /\ UNCHANGED <<mountOutcome, matches, source, curData, tmplData, lastData,
                 froalaMethod, computation, dirty, committed>>

Next ==
  \/ \E p \in Prototypes : Mount(p)
  \/ \E d \in Snapshots[source] : SetData(d)
  \/ RefreshData
  \/ \E k \in 0..3 : Autorun(k)
  \/ \E l \in listeners : Fire(l)
  \/ DestroyView
  \/ \E p \in Prototypes, threw \in BOOLEAN, torn \in BOOLEAN : Unmount(p, threw, torn)

Spec == Init /\ [][Next]_vars

(***************************************************************************)
(* The adapter with an editor that never throws in a run of the autorun    *)
(* block: every run completes.                                             *)
(***************************************************************************)
NextComplete ==
  \/ \E p \in Prototypes : Mount(p)
  \/ \E d \in Snapshots[source] : SetData(d)
  \/ RefreshData
  \/ Autorun(0)
  \/ \E l \in listeners : Fire(l)
  \/ DestroyView
  \/ \E p \in Prototypes, threw \in BOOLEAN, torn \in BOOLEAN : Unmount(p, threw, torn)

SpecComplete == Init /\ [][NextComplete]_vars

(***************************************************************************)
(* Event-binding discovery on its own: getEventHandlerNames applied to     *)
(* snapshots of up to MaxEntries entries, in every key order, and to the   *)
(* snapshot {_onSave: fn, _onLoad: "x", foo: fn, _onSave2: fn}.            *)
(***************************************************************************)
NameKeys == {"_onSave", "_onLoad", "foo", "_onSave2", "_o", "x_on"}

NameValues == {Fn(1), Str("x")}

ExampleSnapshot ==
  <<Entry("_onSave", Fn(1)), Entry("_onLoad", Str("x")),
    Entry("foo", Fn(1)), Entry("_onSave2", Fn(1))>>

NameSnapshots ==
  {ExampleSnapshot} \cup
  UNION {{d \in [1..n -> [key : NameKeys, value : NameValues]] :
            \A i, j \in 1..n : i # j => d[i].key # d[j].key} : n \in 0..MaxEntries}

InitNames ==
  /\ tmplData \in NameSnapshots
  /\ curData = tmplData
  /\ eventHandlers = <<>>
  /\ content = Undefined
  /\ options = <<>>
  /\ seenValue = Undefined
  /\ pending = <<>>
  /\ retried = <<>>
  /\ op = "host"
  /\ phase = "created"
  /\ mountOutcome = "none"
  /\ matches = 1
  /\ proto = NoPrototype
  /\ source = "events"
  /\ lastData = <<>>
  /\ froalaMethod = "null"
  /\ computation = "none"
  /\ dirty = FALSE
  /\ listeners = {}
  /\ instances = 0
  /\ committed = <<>>
  /\ destroyCall = "none"
  /\ prevData = <<>>
  /\ log = <<>>
  /\ outcome = "none"

\* var eventHandlers = getEventHandlerNames(tmpl.data);
Discover ==
  /\ op = "host"
  /\ eventHandlers' = getEventHandlerNames(tmplData)
  /\ op' = "names"
  /\ outcome' = "ok"
  /\ UNCHANGED <<phase, mountOutcome, matches, source, proto, curData, tmplData,
                 computation, dirty, adapter, destroyCall, handed, retried,
                 prevData, log>>

NextNames == Discover

SpecNames == InitNames /\ [][NextNames]_vars

(***************************************************************************)
(* Vocabulary of the properties.                                           *)
(***************************************************************************)
KeysOf(d) == {d[i].key : i \in 1..Len(d)}

\* The key is adapter-reserved: it starts with an underscore.
Reserved(k) == Len(k) >= 1 /\ SubSeq(k, 1, 1) = "_"

\* The value is absent or empty.
Empty(v) == v = Undefined \/ v = Str("")

\* The calls in `calls` with one of the commands `cmds`, in order.
CallsOf(calls, cmds) == SelectSeq(calls, LAMBDA c : c.cmd \in cmds)

\* The (key, value) pairs of the 'option' calls in `calls`.
OptionPairs(calls) ==
  {<<calls[i].key, calls[i].arg>> : i \in {j \in 1..Len(calls) : calls[j].cmd = "option"}}

\* The (key, value) pairs the option-setter must be called with when the
\* last-known snapshot is S1 and the new one S2.
ChangedPairs(S1, S2) ==
  {<<k, Get(S2, k)>> :
     k \in {x \in KeysOf(S2) : ~Reserved(x) /\ ~isEqual(Get(S1, x), Get(S2, x))}}

\* The last step was a run of the reactive recomputation (the first one, in
\* `rendered`, included) that ran to completion.
Recomputed == op \in {"autorun", "rendered"} /\ outcome = "ok"

Mounted == mountOutcome = "ok" /\ phase \in {"rendered", "destroying"}

MountFailed ==
  mountOutcome \in {"invalid-froala-reactive-template", "invalid-froala-editor-plugin"}

\* Neither setter method is resolvable on the prototype.
Unresolvable(p) == ~isFunction(p.froalaEditable) /\ ~isFunction(p.editable)

(***************************************************************************)
(* C1.  A recomputation that processes the last-known snapshot S1 and the  *)
(* new snapshot S2 issues exactly one 'option' call for each key of S2     *)
(* that is not reserved and whose value is not deep-equal to S1's, with    *)
(* S2's value, and no other 'option' call: none for an unchanged key, for  *)
(* a key starting with '_', or for a key of S1 that S2 lacks.              *)
(***************************************************************************)
C1_OptionCallsAreTheChangedOptions ==
  Recomputed =>
    /\ OptionPairs(log) = ChangedPairs(prevData, lastData)
    /\ Len(CallsOf(log, {"option"})) = Cardinality(ChangedPairs(prevData, lastData))

\* A recomputation that set an option while a reserved key had changed too
\* and the wrapped value was dropped.
C1_Witness ==
  /\ op = "autorun" /\ outcome = "ok"
  /\ Len(CallsOf(log, {"option"})) = 1
  /\ \E k \in KeysOf(prevData) :
       Reserved(k) /\ ~isEqual(Get(prevData, k), Get(lastData, k))

(***************************************************************************)
(* C2.  A recomputation whose new `_value` is non-empty and not deep-equal *)
(* to the last-known one issues exactly one 'setHTML' call, with the new   *)
(* value, directly followed by exactly one 'restoreSelectionByMarkers'     *)
(* call; a recomputation whose new `_value` is absent, empty or unchanged  *)
(* issues neither, and mounting with an absent or empty `_value` issues no *)
(* 'setHTML' call.                                                         *)
(***************************************************************************)
C2_ValueChangeSetsContentThenRestores ==
  LET v1 == Get(prevData, "_value")
      v2 == Get(lastData, "_value")
      setCalls == CallsOf(log, {"setHTML", "restoreSelectionByMarkers"})
  IN  /\ (op = "autorun" /\ outcome = "ok") =>
           IF ~Empty(v2) /\ ~isEqual(v1, v2)
           THEN /\ Len(setCalls) = 2
                /\ setCalls[1].cmd = "setHTML" /\ setCalls[1].arg = v2
                /\ setCalls[2].cmd = "restoreSelectionByMarkers"
                /\ log[1] = setCalls[1] /\ log[2] = setCalls[2]
           ELSE setCalls = <<>>
      /\ (op = "rendered" /\ Empty(Get(tmplData, "_value"))) =>
           CallsOf(log, {"setHTML"}) = <<>>

\* A recomputation that replaced one text by another.
C2_Witness ==
  /\ op = "autorun" /\ outcome = "ok"
  /\ ~Empty(Get(prevData, "_value"))
  /\ Len(CallsOf(log, {"setHTML"})) = 1

(***************************************************************************)
(* C3.  After `destroyed` has run and found the plugin method, so that it  *)
(* went on to unsubscribe and destroy, no listener subscribed by           *)
(* `rendered` is still subscribed - whatever data-context updates happened *)
(* in between.                                                             *)
(***************************************************************************)
C3_UnmountUnsubscribesAll ==
  (phase = "destroyed" /\ destroyCall # "not-issued") => listeners = {}

(***************************************************************************)
(* C4.  `destroyed` never throws when `rendered` had failed with one of    *)
(* its two errors, nor when no plugin method is resolvable.                *)
(***************************************************************************)
C4_UnmountNeverThrows ==
  (op = "destroyed" /\ (MountFailed \/ Unresolvable(proto))) => outcome = "ok"

\* `destroyed` after a mount that failed on the template structure, with the
\* plugin loaded, and the editor's 'destroy' threw.
C4_Witness ==
  /\ op = "destroyed"
  /\ mountOutcome = "invalid-froala-reactive-template"
  /\ destroyCall = "threw"

(***************************************************************************)
(* C5.  `rendered` with no or several matching elements throws             *)
(* 'invalid-froala-reactive-template' and has issued no call at all: no    *)
(* editor is instantiated, no content set, no listener subscribed and no   *)
(* autorun registered.                                                     *)
(***************************************************************************)
C5_BadStructureFailsMount ==
  (op = "rendered" /\ matches # 1) =>
    /\ outcome = "invalid-froala-reactive-template"
    /\ log = <<>>
    /\ instances = 0
    /\ listeners = {}
    /\ computation = "none"

\* `rendered` with several matching elements and the plugin loaded.
C5_Witness ==
  /\ op = "rendered" /\ matches > 1 /\ ~Unresolvable(proto)
  /\ outcome = "invalid-froala-reactive-template"

(***************************************************************************)
(* C6 as stated.  `rendered` with neither setter method resolvable throws  *)
(* 'invalid-froala-editor-plugin' whatever the number of matching          *)
(* elements, and issues no editor call and no subscription.                *)
(***************************************************************************)
C6_Original ==
  (op = "rendered" /\ Unresolvable(proto)) =>
    /\ outcome = "invalid-froala-editor-plugin"
    /\ log = <<>>
    /\ listeners = {}

(***************************************************************************)
(* C6 amended.  `rendered` with neither setter method resolvable throws    *)
(* 'invalid-froala-editor-plugin' when exactly one element matches, and    *)
(* 'invalid-froala-reactive-template' (the earlier check) when none or     *)
(* several match; either way it issues no editor call and no subscription. *)
(***************************************************************************)
C6_MissingPluginFailsMount ==
  (op = "rendered" /\ Unresolvable(proto)) =>
    /\ outcome = IF matches = 1 THEN "invalid-froala-editor-plugin"
                 ELSE "invalid-froala-reactive-template"
    /\ log = <<>>
    /\ listeners = {}
    /\ instances = 0

\* `rendered` on exactly one element while `editable` holds something that is
\* not a function.
C6_Witness ==
  /\ op = "rendered" /\ matches = 1
  /\ Unresolvable(proto) /\ proto.editable # Undefined
  /\ outcome = "invalid-froala-editor-plugin"

(***************************************************************************)
(* C7.  A firing listener first calls preventDefault and then, when the    *)
(* data context holds a callable under the listener's key, applies it      *)
(* exactly once with, as `this`, the snapshot saved by the last completed  *)
(* run of the autorun block (the mount-time one while no later run has     *)
(* completed) - whatever tmpl.data holds at that time and however data     *)
(* changes, flushes and events interleave.                                 *)
(***************************************************************************)
C7_ListenerRunsAgainstCommittedSnapshot ==
  op = "listener" =>
    /\ Len(log) >= 1
    /\ log[1].via = "preventDefault"
    /\ \A i \in 2..Len(log) : log[i].via = "apply"
    /\ outcome = "ok" =>
         /\ Len(log) = 2
         /\ log[2].data = committed
         /\ log[2].data = lastData

\* An event fires after a completed recomputation replaced the mount-time
\* snapshot, while tmpl.data still is the mount-time one.
C7_Witness ==
  /\ op = "listener" /\ outcome = "ok"
  /\ Len(log) = 2
  /\ log[2].data = committed
  /\ log[2].data # tmplData

(***************************************************************************)
(* C8 as stated.  The number of live editor instances created by the       *)
(* adapter is 1 while it is mounted, and 0 before mount, after a failed    *)
(* mount and after unmount has completed.                                  *)
(***************************************************************************)
C8_Original ==
  /\ phase = "created" => instances = 0
  /\ MountFailed => instances = 0
  /\ Mounted => instances = 1
  /\ phase = "destroyed" => instances = 0

(***************************************************************************)
(* C8 amended.  The number of live editor instances created by the adapter *)
(* is 1 while it is mounted, 0 before mount and after a failed mount, and  *)
(* 0 after an unmount whose 'destroy' call returned normally; an unmount   *)
(* that finds a plugin method always issues that call; an unmount that     *)
(* finds none leaves the instance of a successful mount alive, and one     *)
(* whose 'destroy' call threw leaves at most that instance.                *)
(***************************************************************************)
C8_OneInstanceWhileMounted ==
  LET atMount == IF mountOutcome = "ok" THEN 1 ELSE 0
  IN  /\ phase = "created" => instances = 0
      /\ MountFailed => instances = 0
      /\ Mounted => instances = 1
      /\ (phase = "destroyed" /\ destroyCall = "returned") => instances = 0
      /\ (phase = "destroyed" /\ destroyCall = "not-issued") => instances = atMount
      /\ (phase = "destroyed" /\ destroyCall = "threw") => instances \in {0, atMount}
      /\ (op = "destroyed" /\ ~Unresolvable(proto)) => destroyCall # "not-issued"

\* An unmount of a mounted adapter whose 'destroy' call returned.
C8_Witness ==
  /\ op = "destroyed" /\ mountOutcome = "ok"
  /\ destroyCall = "returned"
  /\ instances = 0

(***************************************************************************)
(* C9.  getEventHandlerNames returns exactly the keys of the snapshot that *)
(* start with '_on' and hold a function, in the snapshot's key order, and  *)
(* leaves the snapshot as it was; for {_onSave: fn, _onLoad: "x", foo: fn, *)
(* _onSave2: fn} it returns <<"_onSave", "_onSave2">>.                     *)
(***************************************************************************)
C9_DiscoveryReturnsCallablePrefixedKeys ==
  LET hits == {i \in 1..Len(tmplData) :
                 /\ Len(tmplData[i].key) >= 3
                 /\ SubSeq(tmplData[i].key, 1, 3) = "_on"
                 /\ tmplData[i].value.kind = "function"}
      nth(j) == CHOOSE i \in hits : Cardinality({k \in hits : k <= i}) = j
  IN  op = "names" =>
        /\ Len(eventHandlers) = Cardinality(hits)
        /\ \A j \in 1..Len(eventHandlers) : eventHandlers[j] = tmplData[nth(j)].key
        /\ tmplData = ExampleSnapshot => eventHandlers = <<"_onSave", "_onSave2">>
        /\ tmplData = curData

\* Discovery has run on the example snapshot.
C9_Witness ==
  /\ op = "names"
  /\ tmplData = ExampleSnapshot
  /\ eventHandlers = <<"_onSave", "_onSave2">>

(***************************************************************************)
(* C10.  Callbacks are bound once: while the adapter is mounted, a firing  *)
(* event invokes the callable that the mount-time snapshot held under the  *)
(* listener's key, whatever updates of the data context happened since.    *)
(***************************************************************************)
C10_CallbacksBoundOnce ==
  (phase = "rendered" /\ op = "listener") =>
    /\ outcome = "ok"
    /\ Len(log) = 2
    /\ \E l \in listeners : l.opt = log[1].key /\ log[2].arg = l.bound

(***************************************************************************)
(* C11.  A successful `rendered` issues, in this order: one instantiation  *)
(* call that carries the whole initial data context; one 'setHTML' call    *)
(* with the initial `_value` exactly when that is present and non-empty;   *)
(* one subscription per key of the initial data context that starts with   *)
(* '_on' and holds a function, to the event 'editable.' + the rest of the  *)
(* key.  It issues no 'restoreSelectionByMarkers' and no 'option' call,    *)
(* the first run of the autorun block included.                            *)
(***************************************************************************)
C11_MountCallsInOrder ==
  (op = "rendered" /\ outcome = "ok") =>
    LET v == Get(tmplData, "_value")
        n == IF Empty(v) THEN 1 ELSE 2
        bindings == {k \in KeysOf(tmplData) :
                       /\ Len(k) >= 3 /\ SubSeq(k, 1, 3) = "_on"
                       /\ Get(tmplData, k).kind = "function"}
    IN  /\ Len(log) = n + Cardinality(bindings)
        /\ log[1].cmd = "init" /\ log[1].via = froalaMethod /\ log[1].data = tmplData
        /\ Len(CallsOf(log, {"init"})) = 1
        /\ Len(CallsOf(log, {"setHTML"})) = n - 1
        /\ n = 2 => (log[2].cmd = "setHTML" /\ log[2].arg = v /\ log[2].via = froalaMethod)
        /\ \A i \in (n + 1)..Len(log) :
             /\ log[i].via = "on"
             /\ log[i].key \in bindings
             /\ log[i].cmd = "editable." \o SubSeq(log[i].key, 4, Len(log[i].key))
        /\ {log[i].key : i \in (n + 1)..Len(log)} = bindings
        /\ CallsOf(log, {"restoreSelectionByMarkers", "option"}) = <<>>

\* A mount with a text, an event callback and an editor option.
C11_Witness ==
  /\ op = "rendered" /\ outcome = "ok"
  /\ Len(log) = 3
  /\ log[2].cmd = "setHTML" /\ log[3].via = "on"
  /\ Get(tmplData, "a_b") # Undefined

(***************************************************************************)
(* C12.  Every run of the autorun block that completes saves the new data  *)
(* context as the last-known one, whatever it issued: also when it issued  *)
(* no call at all and when the new data context has fewer keys.  So every  *)
(* run compares with the data context of the last completed run.           *)
(***************************************************************************)
C12_CompletedRunSavesSnapshot ==
  [][(op' = "autorun" /\ outcome' = "ok") =>
       /\ lastData' = curData
       /\ prevData' = committed
       /\ OptionPairs(log') = ChangedPairs(committed, curData)]_vars

\* A completed run that issued no call and saved a data context with fewer
\* keys than the one before.
C12_Witness ==
  /\ op = "autorun" /\ outcome = "ok"
  /\ log = <<>>
  /\ lastData = curData
  /\ Len(lastData) < Len(prevData)

(***************************************************************************)
(* C14.  `destroyed` with a resolvable plugin method issues one 'unbind'   *)
(* call per event handler name of tmpl.data and then exactly one 'destroy' *)
(* call, through the method it resolved; it returns normally also when     *)
(* that call throws, and the events it unbound have no listener left.      *)
(***************************************************************************)
C14_UnmountUnbindsThenDestroys ==
  (op = "destroyed" /\ ~Unresolvable(proto)) =>
    LET n == Len(log)
        names == {k \in KeysOf(tmplData) :
                    /\ Len(k) >= 3 /\ SubSeq(k, 1, 3) = "_on"
                    /\ Get(tmplData, k).kind = "function"}
    IN  /\ outcome = "ok"
        /\ destroyCall \in {"returned", "threw"}
        /\ n = Cardinality(names) + 1
        /\ log[n].cmd = "destroy"
        /\ log[n].via = (IF proto.froalaEditable.kind = "function"
                         THEN "froalaEditable" ELSE "editable")
        /\ \A i \in 1..(n - 1) :
             /\ log[i].via = "unbind"
             /\ log[i].key \in names
             /\ log[i].cmd = "editable." \o SubSeq(log[i].key, 4, Len(log[i].key))
             /\ \A l \in listeners : l.event # log[i].cmd
        /\ {log[i].key : i \in 1..(n - 1)} = names

\* An unmount that unbound a listener and whose 'destroy' call threw.
C14_Witness ==
  /\ op = "destroyed" /\ mountOutcome = "ok"
  /\ destroyCall = "threw" /\ outcome = "ok"
  /\ Len(log) = 2
  /\ listeners = {}

(***************************************************************************)
(* C15.  `destroyed` with no resolvable plugin method is a no-op: it       *)
(* issues no call, returns normally and leaves the adapter's state as it   *)
(* was, the listeners subscribed by `rendered` included.                   *)
(***************************************************************************)
C15_UnmountWithoutPluginIsNoOp ==
  [][(op' = "destroyed" /\ Unresolvable(proto')) =>
       /\ log' = <<>>
       /\ outcome' = "ok"
       /\ destroyCall' = "not-issued"
       /\ UNCHANGED adapter]_vars

\* An unmount without plugin that left a listener and the editor behind.
C15_Witness ==
  /\ op = "destroyed" /\ Unresolvable(proto)
  /\ mountOutcome = "ok"
  /\ listeners # {}
  /\ instances = 1
  /\ log = <<>>

\* The name the resolution must return on a jQuery object with prototype p.
ExpectedMethod(p) ==
  IF p.froalaEditable.kind = "function" THEN "froalaEditable"
  ELSE IF p.editable.kind = "function" THEN "editable"
  ELSE "null"

\* The hook of the last step resolved the expected name and issued its editor
\* calls through it; the autorun block issues its calls through the name that
\* `rendered` resolved; without a jQuery object the resolution returns null.
Resolved ==
  LET editorCalls == CallsOf(log, {"init", "setHTML", "restoreSelectionByMarkers",
                                   "option", "destroy"})
  IN  /\ (op = "rendered" /\ matches = 1) =>
           ((outcome = "ok") <=> (ExpectedMethod(proto) # "null"))
      /\ (op = "rendered" /\ outcome = "ok") => (froalaMethod = ExpectedMethod(proto))
      /\ (op = "destroyed") =>
           (\A i \in 1..Len(editorCalls) : editorCalls[i].via = ExpectedMethod(proto))
      /\ (op = "destroyed" /\ ExpectedMethod(proto) = "null") => (editorCalls = <<>>)
      /\ (op \in {"rendered", "autorun"}) =>
           (\A i \in 1..Len(editorCalls) : editorCalls[i].via = froalaMethod)
      /\ (mountOutcome = "ok") <=> (froalaMethod # "null")
      /\ \A p \in Prototypes :
           getFroalaEditableJQueryInstanceMethod(
             [JQuery(matches, p) EXCEPT !.exists = FALSE]) = "null"

(***************************************************************************)
(* C16.  getFroalaEditableJQueryInstanceMethod returns 'froalaEditable'    *)
(* when that property is a function (whatever `editable` is), 'editable'   *)
(* when only that one is a function, and null when neither is or there is  *)
(* no jQuery object.  `rendered` resolves the name once, and every editor  *)
(* call of `rendered` and of the autorun block goes through that name.     *)
(***************************************************************************)
C16_MethodResolution ==
  [][/\ Resolved'
     /\ mountOutcome = "ok" => froalaMethod' = froalaMethod]_vars

\* A mount with both names callable went through the alias.
C16_Witness ==
  /\ op = "rendered" /\ outcome = "ok"
  /\ isFunction(proto.froalaEditable) /\ isFunction(proto.editable)
  /\ log[1].via = "froalaEditable"

(***************************************************************************)
(* C13.  A run of the autorun block in which an editor call throws ends    *)
(* with that exception: it has issued the calls up to the throwing one and *)
(* none of the remaining ones, and it has not saved the new data context.  *)
(* So the next run compares with the older data context again: every call  *)
(* the editor had accepted in the failed run was for a value that differs  *)
(* from the one the next run compares with, and the next run, when it      *)
(* completes, issues that call again if the data context still holds that  *)
(* value.                                                                  *)
(***************************************************************************)
C13_FailedRunKeepsOldSnapshot ==
  LET full == AutorunCalls(froalaMethod, prevData, curData)
      setters(calls) == {i \in 1..Len(calls) : calls[i].cmd \in {"setHTML", "option"}}
  IN  op = "autorun" =>
        /\ outcome \in {"ok", "editor-error"}
        /\ outcome = "editor-error" =>
             /\ log # <<>>
             /\ Len(log) <= Len(full)
             /\ log = SubSeq(full, 1, Len(log))
             /\ pending = SubSeq(log, 1, Len(log) - 1)
             /\ lastData = prevData
             /\ committed = prevData
        /\ \A i \in setters(retried) :
             ~isEqual(Get(prevData, retried[i].key), retried[i].arg)
        /\ outcome = "ok" =>
             \A i \in setters(retried) :
               isEqual(Get(lastData, retried[i].key), retried[i].arg) =>
                 \E j \in setters(log) :
                   /\ log[j].cmd = retried[i].cmd
                   /\ log[j].key = retried[i].key
                   /\ log[j].arg = Get(lastData, retried[i].key)

\* A run that completed after a run that threw, and issued again a call the
\* editor had accepted in the failed run.
C13_Witness ==
  /\ op = "autorun" /\ outcome = "ok"
  /\ retried # <<>>
  /\ \E i \in 1..Len(retried), j \in 1..Len(log) :
       retried[i] = log[j] /\ log[j].cmd = "setHTML"

(***************************************************************************)
(* C17.  While the adapter is mounted and every run of the autorun block   *)
(* has completed, each key of the last-known data context that does not    *)
(* start with '_' has been handed to the editor, by the instantiation call *)
(* or an 'option' call, and the value handed last is deep-equal to the one *)
(* the last-known data context holds.                                      *)
(***************************************************************************)
C17_OptionsInSync ==
  (phase = "rendered" /\ mountOutcome = "ok") =>
    \A k \in KeysOf(lastData) :
      ~Reserved(k) =>
        /\ k \in KeysOf(options)
        /\ isEqual(Get(options, k), Get(lastData, k))

\* A completed run took over an object that is deep-equal to, but not the same
\* as, the one the editor holds.
C17_Witness ==
  /\ op = "autorun" /\ outcome = "ok"
  /\ Get(lastData, "a_b") # Undefined
  /\ Get(options, "a_b") # Get(lastData, "a_b")

(***************************************************************************)
(* C18.  While the adapter is mounted and every run of the autorun block   *)
(* has completed, the argument of the last 'setHTML' call is deep-equal to *)
(* the most recent non-empty `_value` of the data contexts processed so    *)
(* far, and no 'setHTML' call was issued if none had one.  A run whose     *)
(* `_value` is empty issues no 'setHTML', and a run whose `_value` is      *)
(* non-empty after an empty one issues it.                                 *)
(***************************************************************************)
C18_ContentInSync ==
  (phase = "rendered" /\ mountOutcome = "ok") =>
    /\ isEqual(content, seenValue)
    /\ (content = Undefined) <=> (seenValue = Undefined)
    /\ (op = "autorun" /\ Empty(Get(lastData, "_value"))) =>
         (CallsOf(log, {"setHTML"}) = <<>>)
    /\ (op = "autorun" /\ Empty(Get(prevData, "_value"))
                       /\ ~Empty(Get(lastData, "_value"))) =>
         (/\ Len(CallsOf(log, {"setHTML"})) = 1
          /\ content = Get(lastData, "_value"))

\* A completed run whose `_value` became empty left the text set before.
C18_Witness ==
  /\ op = "autorun" /\ outcome = "ok"
  /\ ~Empty(Get(prevData, "_value"))
  /\ Empty(Get(lastData, "_value"))
  /\ content = Get(prevData, "_value")

====
